---- MODULE Spec2Model ----
(***************************************************************************)
(* Motion_planning (raveInterface.py): segment refinement of a coarse     *)
(* path with a three-step escalation of the optimizer's initial guess and *)
(* a self-collision validation of every candidate.                        *)
(*                                                                         *)
(* Joint vectors are sequences of NumDOF integers.  Lengths (end-effector *)
(* displacement, step_dis_ratio) are in tenths of a length unit, so the   *)
(* source's ratio 0.5 is 5 and the displacement 1.7 is 17.                *)
(***************************************************************************)
EXTENDS Integers, Sequences, FiniteSets, TLC

VARIABLES
    pc,             \* position of the caller: idle, segment, attempt, validate, append, done, played, failed
    err,            \* the exception that ended the run ("" when none)
    left_arm_DOF,   \* self.left_arm_DOF  (Unset until set_manip)
    right_arm_DOF,  \* self.right_arm_DOF (Unset until set_manip)
    robotDOF,       \* the robot's current joint values, per arm
    contact,        \* collision backend: the poses at which links 3 and 6 touch
    manip,          \* optimize's argument manip
    plan_arm,       \* self.plan_arm
    target,         \* self.target
    request,        \* self.request
    trajectory,     \* the coarse path returned by __init_traj
    traj,           \* self.traj, the accumulated output
    i,              \* segment index of the outer loop (0-based, as in the source)
    j,              \* strategy index of the inner loop
    dis,            \* end-effector displacement of the current segment (tenths)
    n_steps,        \* step count of the current segment
    result,         \* the optimizer's result of the latest call
    callPose,       \* history: the planning arm's pose when the optimizer was last invoked
    v_before,       \* history: last joint of the stored configuration before the latest retraction
    checked,        \* history: the trajectory handed to the latest __check_safe
    safe,           \* history: the verdict of the latest __check_safe
    queries,        \* history: collision queries made by the latest __check_safe
    log,            \* history: one record per request submitted to the optimizer
    accepted,       \* history: one record per candidate appended to self.traj
    planned,        \* history: status of the coarse planner's PlanPath ("none" until called)
    simplified,     \* history: status of the simplifier's PlanPath ("none" until called)
    plan_start,     \* history: the start pose handed to the coarse planner
    stored0         \* history: the stored configurations when optimize was called

vars == <<pc, err, left_arm_DOF, right_arm_DOF, robotDOF, contact, manip, plan_arm,
          target, request, trajectory, traj, i, j, dis, n_steps, result, callPose,
          v_before, checked, safe, queries, log, accepted, planned, simplified,
          plan_start, stored0>>

----------------------------------------------------------------------------
(* Bounds of the model *)

\* longest coarse path (waypoints) the planner returns
MaxWaypoints == 3
\* largest displacement (tenths) the step sizing is checked on
MaxDis == 20

(* Program constants *)

\* length of a joint vector (joint_start1, joint_start2)
NumDOF == 3
\* step_dis_ratio = 0.5, in tenths
step_dis_ratio == 5
\* the floor of the step count: max(..., 3)
min_steps == 3
\* the retraction offset: pull_back[-1] - 5
retract_by == 5
\* range(3): the number of strategies
n_strategies == 3
\* self.robot.GetDOFLimits()[0][-1], the lower limit of the last joint
limit == 2

Arms == {"left_arm", "right_arm"}
Unset == <<>>

\* last-joint values of the poses the environment produces
LastVals == {4, 12}
Poses == {<<0, 0, d>> : d \in LastVals}
\* the robot's pose as loaded from the environment file
LoadedPose == <<0, 0, 4>>
\* displacement (tenths) of the segments of a full run: 0.3
SegDisplacements == {3}

Max(a, b) == IF a >= b THEN a ELSE b

NoRequest == [set |-> FALSE]
NoResult == [traj |-> <<>>, status |-> "none"]

----------------------------------------------------------------------------
(* Pure helpers *)

\* ceil(dis / step_dis_ratio) for dis >= 0
Ceil(d) == (d + step_dis_ratio - 1) \div step_dis_ratio

StepCount_floor(d) == Max(d \div step_dis_ratio, min_steps)
\* n_steps = max(int(ceil(dis / step_dis_ratio)), 3)
StepCount(d) == Max(Ceil(d), min_steps)

PullBack_unclamped(v) == [v EXCEPT ![Len(v)] = v[Len(v)] - retract_by]
\* pull_back[-1] = max(limit, pull_back[-1] - 5)
PullBack(v) == [v EXCEPT ![Len(v)] = Max(limit, v[Len(v)] - retract_by)]

\* eval('self.' + self.plan_arm + '_DOF')
StoredDOF(arm) == IF arm = "left_arm" THEN left_arm_DOF ELSE right_arm_DOF

Strategy_swapped(jj) ==
    CASE jj = 0 -> "straight_line_target"
      [] jj = 1 -> "stationary"
      [] OTHER  -> "straight_line_retract"
\* the branch of the if/elif chain taken for strategy index j
Strategy(jj) ==
    CASE jj = 0 -> "straight_line_target"
      [] jj = 1 -> "straight_line_retract"
      [] OTHER  -> "stationary"

\* the init_info put into the request for a strategy
InitInfo_always_target(s, tgt, pull_back) == [type |-> "straight_line", endpoint |-> tgt]
InitInfo(s, tgt, pull_back) ==
    CASE s = "straight_line_target"  -> [type |-> "straight_line", endpoint |-> tgt]
      [] s = "straight_line_retract" -> [type |-> "straight_line", endpoint |-> pull_back]
      [] OTHER                       -> [type |-> "stationary", endpoint |-> <<>>]

NoInitInfo == [type |-> "none", endpoint |-> <<>>]

SetRequest_horizon_off_by_one(m, joint_target, n) ==
    [set |-> TRUE,
     basic_info |-> [n_steps |-> n, manip |-> m, start_fixed |-> TRUE],
     costs |-> <<[type |-> "joint_vel", coeffs |-> <<100, 100, 1>>],
                 [type |-> "collision", coeffs |-> <<10000>>, continuous |-> TRUE],
                 [type |-> "collision", coeffs |-> <<10000>>, continuous |-> FALSE]>>,
     constraints |-> <<[type |-> "joint", vals |-> joint_target],
                       [type |-> "cart_vel", name |-> "s0_vel", max_displacement |-> 1,
                        first_step |-> 0, last_step |-> n, link |-> "s0"],
                       [type |-> "cart_vel", name |-> "s1_vel", max_displacement |-> 1,
                        first_step |-> 0, last_step |-> n, link |-> "s1"]>>,
     init_info |-> [type |-> "none", endpoint |-> <<>>]]
\* the request built by __set_request
SetRequest(m, joint_target, n) ==
    [set |-> TRUE,
     basic_info |-> [n_steps |-> n, manip |-> m, start_fixed |-> TRUE],
     costs |-> <<[type |-> "joint_vel", coeffs |-> <<100, 100, 1>>],
                 [type |-> "collision", coeffs |-> <<10000>>, continuous |-> TRUE],
                 [type |-> "collision", coeffs |-> <<10000>>, continuous |-> FALSE]>>,
     constraints |-> <<[type |-> "joint", vals |-> joint_target],
                       [type |-> "cart_vel", name |-> "s0_vel", max_displacement |-> 1,
                        first_step |-> 0, last_step |-> n - 1, link |-> "s0"],
                       [type |-> "cart_vel", name |-> "s1_vel", max_displacement |-> 1,
                        first_step |-> 0, last_step |-> n - 1, link |-> "s1"]>>,
     init_info |-> NoInitInfo]

PlannerStart_of_manip(m) == StoredDOF(m)
\* the start pose of the coarse plan: SetActiveDOFValues(self.right_arm_DOF)
PlannerStart(m) == right_arm_DOF

InitTrajOutcome_unasserted(planner_ok, simplifier_ok) ==
    [planned |-> IF planner_ok THEN "ok" ELSE "fail",
     simplified |-> IF simplifier_ok THEN "ok" ELSE "fail",
     returns |-> TRUE]
\* PlanPath, assert, simplifier PlanPath, assert: which calls are made and
\* whether __init_traj returns a path
InitTrajOutcome(planner_ok, simplifier_ok) ==
    IF ~planner_ok THEN [planned |-> "fail", simplified |-> "none", returns |-> FALSE]
    ELSE IF ~simplifier_ok THEN [planned |-> "ok", simplified |-> "fail", returns |-> FALSE]
    ELSE [planned |-> "ok", simplified |-> "ok", returns |-> TRUE]

\* env.CheckCollision(links[3], links[6]) at a pose of the planning arm
CheckCollision(pose) == pose \in contact

RECURSIVE CheckSafeFrom(_, _, _, _)
\* the for loop of __check_safe from sample k on: the verdict, the pose left
\* behind and the number of collision queries made
CheckSafeFrom(t, k, pose, q) ==
    IF k > Len(t) THEN [safe |-> TRUE, pose |-> pose, queries |-> q]
    ELSE IF CheckCollision(t[k]) THEN [safe |-> FALSE, pose |-> t[k], queries |-> q + 1]
    ELSE CheckSafeFrom(t, k + 1, t[k], q + 1)

check_safe_last_only(t, pose) ==
    IF Len(t) = 0 THEN [safe |-> TRUE, pose |-> pose, queries |-> 0]
    ELSE [safe |-> ~CheckCollision(t[Len(t)]), pose |-> t[Len(t)], queries |-> 1]
check_safe_restoring(t, pose) == [CheckSafeFrom(t, 1, pose, 0) EXCEPT !.pose = pose]
\* __check_safe(trajectory) with the planning arm at pose
check_safe(t, pose) == CheckSafeFrom(t, 1, pose, 0)

AfterCheck_always_break(verdict, jj) == "break"
AfterCheck_never_raise(verdict, jj) ==
    IF verdict \/ jj = n_strategies - 1 THEN "break" ELSE "continue"
AfterCheck_never_break(verdict, jj) ==
    IF jj = n_strategies - 1 THEN (IF verdict THEN "break" ELSE "raise") ELSE "continue"
AfterCheck_extra_retry(verdict, jj) ==
    IF verdict THEN "break"
    ELSE IF jj = n_strategies THEN "raise"
    ELSE "continue"
\* what the inner loop does with a verdict: break, raise, or go on with j + 1
AfterCheck(verdict, jj) ==
    IF verdict THEN "break"
    ELSE IF jj = n_strategies - 1 THEN "raise"
    ELSE "continue"

Extend_dedup(acc, cand) ==
    IF Len(acc) > 0 /\ Len(cand) > 0 /\ acc[Len(acc)] = cand[1]
    THEN acc \o Tail(cand) ELSE acc \o cand
\* self.traj += result.GetTraj().tolist()
Extend(acc, cand) == acc \o cand

\* what the optimizer may return for a request: n_steps samples, the first
\* pinned to the current pose when start_fixed, and a status the source never reads
Candidates(req, pose) ==
    LET n == req.basic_info.n_steps
        first == IF req.basic_info.start_fixed THEN {pose} ELSE Poses
    IN  {<<f>> \o rest : f \in first, rest \in [1..(n - 1) -> Poses]}

\* a waypoint as GetWaypoint(i).tolist() gives it when the trajectory's
\* configuration carries one value more than the arm has joints
BadWaypoint == <<0, 0, 4, 0>>

\* the coarse paths the planner and simplifier may return from a start pose;
\* nothing in __init_traj ties the length of a waypoint to the arm's DOF count
CoarsePaths(start) ==
    UNION {{<<start>> \o rest : rest \in [1..(n - 1) -> Poses]} : n \in 1..MaxWaypoints}
        \cup {<<start, BadWaypoint>>}

\* whether a joint vector has the active manipulator's DOF count
WellFormed(w) == Len(w) = NumDOF

\* IK.get_endEffector_fromDOF is defined on joint vectors of the arm; on any
\* other vector it may raise or return a position
IKMayRaise(w) == ~WellFormed(w)

\* trajoptpy.ConstructProblem refuses a joint constraint whose vals do not
\* have the manipulator's DOF count
OptimizerAccepts(req) == WellFormed(req.constraints[1].vals)

PrimedPose_target(path, ii) == path[ii + 2]
\* the pose set before the inner loop: SetDOFValues(trajectory[i], ...)
PrimedPose(path, ii) == path[ii + 1]

----------------------------------------------------------------------------
(* State machine *)

Init ==
    /\ pc = "idle"
    /\ err = ""
    /\ left_arm_DOF = Unset
    /\ right_arm_DOF = Unset
    /\ robotDOF = [a \in Arms |-> LoadedPose]
    /\ contact \in SUBSET Poses
    /\ manip = "none"
    /\ plan_arm = "none"
    /\ target = <<>>
    /\ request = NoRequest
    /\ trajectory = <<>>
    /\ traj = <<>>
    /\ i = 0
    /\ j = 0
    /\ dis = 0
    /\ n_steps = 0
    /\ result = NoResult
    /\ callPose = <<>>
    /\ v_before = 0
    /\ checked = <<>>
    /\ safe = FALSE
    /\ queries = 0
    /\ log = <<>>
    /\ accepted = <<>>
    /\ planned = "none"
    /\ simplified = "none"
    /\ plan_start = <<>>
    /\ stored0 = [a \in Arms |-> Unset]

\* set_manip(name, DOF)
SetManip(name, DOF) ==
    /\ pc = "idle"
    /\ IF name = "left_arm"
       THEN left_arm_DOF' = DOF /\ UNCHANGED right_arm_DOF
       ELSE right_arm_DOF' = DOF /\ UNCHANGED left_arm_DOF
    /\ robotDOF' = [robotDOF EXCEPT ![name] = DOF]
    /\ UNCHANGED <<pc, err, contact, manip, plan_arm, target, request, trajectory, traj,
                   i, j, dis, n_steps, result, callPose, v_before, checked, safe,
                   queries, log, accepted, planned, simplified,
                   plan_start, stored0>>

\* optimize(manip, ...) up to the head of the outer loop: __init_traj, self.traj = []
Optimize(m, planner_ok, simplifier_ok, path) ==
    /\ pc = "idle"
    /\ manip' = m
    /\ stored0' = [a \in Arms |-> StoredDOF(a)]
    /\ IF PlannerStart(m) = Unset
       THEN /\ pc' = "failed"
            /\ err' = "AttributeError"
            /\ UNCHANGED <<robotDOF, trajectory, traj, i, planned, simplified, plan_start>>
       ELSE /\ robotDOF' = [robotDOF EXCEPT ![m] = PlannerStart(m)]
            /\ plan_start' = PlannerStart(m)
            /\ LET out == InitTrajOutcome(planner_ok, simplifier_ok)
               IN  /\ planned' = out.planned
                   /\ simplified' = out.simplified
                   /\ IF out.returns
                      THEN /\ trajectory' = path
                           /\ traj' = <<>>
                           /\ i' = 0
                           /\ pc' = "segment"
                           /\ UNCHANGED err
                      ELSE /\ pc' = "failed"
                           /\ err' = "AssertionError"
                           /\ UNCHANGED <<trajectory, traj, i>>
    /\ UNCHANGED <<left_arm_DOF, right_arm_DOF, contact, plan_arm, target, request,
                   j, dis, n_steps, result, callPose, v_before, checked, safe, queries,
                   log, accepted>>

\* one iteration head of the outer loop: step sizing, __set_request, pose priming
Segment(d, ik_ok) ==
    /\ pc = "segment"
    /\ i < Len(trajectory) - 1
    /\ IF ~ik_ok
       THEN /\ IKMayRaise(trajectory[i + 2]) \/ IKMayRaise(trajectory[i + 1])
            /\ pc' = "failed"
            /\ err' = "IKError"
            /\ UNCHANGED <<dis, n_steps, plan_arm, target, request, robotDOF, j>>
       ELSE /\ dis' = d
            /\ n_steps' = StepCount(d)
            /\ plan_arm' = manip
            /\ target' = trajectory[i + 2]
            /\ request' = SetRequest(manip, trajectory[i + 2], StepCount(d))
            /\ robotDOF' = [robotDOF EXCEPT ![manip] = PrimedPose(trajectory, i)]
            /\ j' = 0
            /\ pc' = "attempt"
            /\ UNCHANGED err
    /\ UNCHANGED <<left_arm_DOF, right_arm_DOF, contact, manip, trajectory, traj,
                   i, result, callPose, v_before, checked, safe, queries, log, accepted,
                   planned, simplified, plan_start, stored0>>

\* the outer loop is exhausted: optimize returns
Return ==
    /\ pc = "segment"
    /\ i >= Len(trajectory) - 1
    /\ pc' = "done"
    /\ UNCHANGED <<err, left_arm_DOF, right_arm_DOF, robotDOF, contact, manip, plan_arm,
                   target, request, trajectory, traj, i, j, dis, n_steps, result,
                   callPose, v_before, checked, safe, queries, log, accepted, planned, simplified,
                   plan_start, stored0>>

\* one attempt: init_info of strategy j, then the optimizer call
Attempt ==
    /\ pc = "attempt"
    /\ LET s == Strategy(j)
           stored == StoredDOF(plan_arm)
       IN  IF s = "straight_line_retract" /\ stored = Unset
           THEN /\ pc' = "failed"
                /\ err' = "AttributeError"
                /\ UNCHANGED <<left_arm_DOF, right_arm_DOF, request, result, callPose,
                               v_before, log>>
           ELSE /\ IF s = "straight_line_retract"
                   THEN /\ v_before' = stored[Len(stored)]
                        /\ IF plan_arm = "left_arm"
                           THEN left_arm_DOF' = PullBack(stored) /\ UNCHANGED right_arm_DOF
                           ELSE right_arm_DOF' = PullBack(stored) /\ UNCHANGED left_arm_DOF
                        /\ request' = [request EXCEPT
                                         !.init_info = InitInfo(s, target, PullBack(stored))]
                   ELSE /\ request' = [request EXCEPT
                                         !.init_info = InitInfo(s, target, <<>>)]
                        /\ UNCHANGED <<left_arm_DOF, right_arm_DOF, v_before>>
                /\ callPose' = robotDOF[plan_arm]
                /\ IF OptimizerAccepts(request)
                   THEN /\ \E cand \in Candidates(request, robotDOF[plan_arm]),
                              status \in {"ok", "fail"} :
                                 result' = [traj |-> cand, status |-> status]
                        /\ log' = Append(log, [seg |-> i, strat |-> s, verdict |-> "pending",
                                               request |-> request'])
                        /\ pc' = "validate"
                        /\ UNCHANGED err
                   ELSE /\ log' = Append(log, [seg |-> i, strat |-> s, verdict |-> "error",
                                               request |-> request'])
                        /\ pc' = "failed"
                        /\ err' = "OptimizerError"
                        /\ UNCHANGED result
    /\ UNCHANGED <<robotDOF, contact, manip, plan_arm, target, trajectory, traj, i, j,
                   dis, n_steps, checked, safe, queries, accepted, planned, simplified,
                   plan_start, stored0>>

\* __check_safe(result.GetTraj()) and the branch on its verdict
Validate ==
    /\ pc = "validate"
    /\ LET r == check_safe(result.traj, robotDOF[plan_arm])
           todo == AfterCheck(r.safe, j)
       IN  /\ robotDOF' = [robotDOF EXCEPT ![plan_arm] = r.pose]
           /\ checked' = result.traj
           /\ safe' = r.safe
           /\ queries' = r.queries
           /\ log' = [log EXCEPT ![Len(log)].verdict = IF r.safe THEN "safe" ELSE "unsafe"]
           /\ CASE todo = "break"    -> pc' = "append" /\ UNCHANGED <<j, err>>
                [] todo = "raise"    -> pc' = "failed" /\ err' = "No path is safe" /\ UNCHANGED j
                [] OTHER             -> pc' = "attempt" /\ j' = j + 1 /\ UNCHANGED err
    /\ UNCHANGED <<left_arm_DOF, right_arm_DOF, contact, manip, plan_arm, target, request,
                   trajectory, traj, i, dis, n_steps, result, callPose, v_before, accepted, planned, simplified,
                   plan_start, stored0>>

\* self.traj += result.GetTraj().tolist(), then the next segment
AppendResult ==
    /\ pc = "append"
    /\ traj' = Extend(traj, result.traj)
    /\ accepted' = Append(accepted, [seg |-> i, cand |-> result.traj, validated |-> checked,
                                     verdict |-> safe, status |-> result.status])
    /\ i' = i + 1
    /\ pc' = "segment"
    /\ UNCHANGED <<err, left_arm_DOF, right_arm_DOF, robotDOF, contact, manip, plan_arm,
                   target, request, trajectory, j, dis, n_steps, result, callPose,
                   v_before, checked, safe, queries, log, planned, simplified,
                   plan_start, stored0>>

\* simulate(): plays self.traj on the planning arm
Simulate ==
    /\ pc = "done"
    /\ pc' = "played"
    /\ robotDOF' = IF Len(traj) > 0
                   THEN [robotDOF EXCEPT ![plan_arm] = traj[Len(traj)]]
                   ELSE robotDOF
    /\ UNCHANGED <<err, left_arm_DOF, right_arm_DOF, contact, manip, plan_arm, target,
                   request, trajectory, traj, i, j, dis, n_steps, result, callPose,
                   v_before, checked, safe, queries, log, accepted, planned, simplified,
                   plan_start, stored0>>

Next ==
    \/ \E name \in Arms, DOF \in Poses : SetManip(name, DOF)
    \/ \E m \in Arms, p \in BOOLEAN, s \in BOOLEAN :
          \E path \in CoarsePaths(PlannerStart(m)) : Optimize(m, p, s, path)
    \/ \E d \in SegDisplacements, ik_ok \in BOOLEAN : Segment(d, ik_ok)
    \/ Return
    \/ Attempt
    \/ Validate
    \/ AppendResult
    \/ Simulate

Spec == Init /\ [][Next]_vars

\* the statements of optimize, from the first segment to its return or raise
RunStep ==
    \/ \E d \in SegDisplacements, ik_ok \in BOOLEAN : Segment(d, ik_ok)
    \/ Return
    \/ Attempt
    \/ Validate
    \/ AppendResult

\* the planner object of the main block when it calls optimize: both arms
\* configured by set_manip, to different poses
InitLive ==
    /\ pc = "idle"
    /\ err = ""
    /\ left_arm_DOF = <<0, 0, 12>>
    /\ right_arm_DOF = <<0, 0, 4>>
    /\ robotDOF = [a \in Arms |-> IF a = "left_arm" THEN <<0, 0, 12>> ELSE <<0, 0, 4>>]
    /\ contact \in SUBSET Poses
    /\ manip = "none"
    /\ plan_arm = "none"
    /\ target = <<>>
    /\ request = NoRequest
    /\ trajectory = <<>>
    /\ traj = <<>>
    /\ i = 0
    /\ j = 0
    /\ dis = 0
    /\ n_steps = 0
    /\ result = NoResult
    /\ callPose = <<>>
    /\ v_before = 0
    /\ checked = <<>>
    /\ safe = FALSE
    /\ queries = 0
    /\ log = <<>>
    /\ accepted = <<>>
    /\ planned = "none"
    /\ simplified = "none"
    /\ plan_start = <<>>
    /\ stored0 = [a \in Arms |-> Unset]

NextLive ==
    \/ \E m \in Arms, p \in BOOLEAN, s \in BOOLEAN :
          \E path \in CoarsePaths(PlannerStart(m)) : Optimize(m, p, s, path)
    \/ RunStep
    \/ Simulate

\* optimize is sequential code: while it has a next statement it executes it
SpecLive == InitLive /\ [][NextLive]_vars /\ WF_vars(RunStep)

----------------------------------------------------------------------------
(* Step sizing on its own: the head of the outer loop for the first segment *)
(* of a two-waypoint coarse path, over every displacement up to MaxDis.     *)

InitSteps ==
    /\ pc = "segment"
    /\ err = ""
    /\ left_arm_DOF \in Poses
    /\ right_arm_DOF \in Poses
    /\ manip \in Arms
    /\ robotDOF = [a \in Arms |-> IF a = manip THEN right_arm_DOF
                                  ELSE IF a = "left_arm" THEN left_arm_DOF
                                  ELSE right_arm_DOF]
    /\ contact = {}
    /\ plan_arm = "none"
    /\ target = <<>>
    /\ request = NoRequest
    /\ trajectory \in {<<right_arm_DOF, w>> : w \in Poses}
    /\ traj = <<>>
    /\ i = 0
    /\ j = 0
    /\ dis = 0
    /\ n_steps = 0
    /\ result = NoResult
    /\ callPose = <<>>
    /\ v_before = 0
    /\ checked = <<>>
    /\ safe = FALSE
    /\ queries = 0
    /\ log = <<>>
    /\ accepted = <<>>
    /\ planned = "ok"
    /\ simplified = "ok"
    /\ plan_start = right_arm_DOF
    /\ stored0 = [a \in Arms |-> IF a = "left_arm" THEN left_arm_DOF ELSE right_arm_DOF]

NextSteps == \E d \in 0..MaxDis : Segment(d, TRUE)

SpecSteps == InitSteps /\ [][NextSteps]_vars

----------------------------------------------------------------------------
(* Properties *)

LastJoint(v) == v[Len(v)]

\* the log records of the optimizer calls made for segment sg before call k
EarlierCalls(k, sg) == {m \in 1..(k - 1) : log[m].seg = sg}

StrategyOrder == <<"straight_line_target", "straight_line_retract", "stationary">>

\* C1: at every invocation of the optimizer (first attempt and retries alike)
\* the planning arm's pose is the start waypoint trajectory[i] of the segment.
C1_PoseIsSegmentStartAtCall ==
    pc = "validate" => callPose = trajectory[i + 1]

\* C2: every candidate appended to self.traj is the one the safety validator
\* was run on and judged safe.
C2_OnlySafeCandidatesAppended ==
    \A k \in 1..Len(accepted) :
        /\ accepted[k].verdict = TRUE
        /\ accepted[k].validated = accepted[k].cand

\* a segment was accepted and a later candidate was judged unsafe
C2_Witness ==
    /\ Len(accepted) = 1
    /\ accepted[1].verdict = TRUE
    /\ \E k \in 1..Len(log) : log[k].seg = 1 /\ log[k].verdict = "unsafe"

\* C3: when all three strategies of a segment are unsafe the run fails with
\* 'No path is safe' and no partial trajectory is left in the run's output.
C3_NoPartialOutputOnFailure ==
    (pc = "failed" /\ err = "No path is safe") => traj = <<>>

\* C4: within a segment the strategies are attempted in the order
\* straight-line-to-target, straight-line-to-retracted-pose, stationary, each
\* at most once, a later one only after every earlier one was judged unsafe.
C4_StrategiesInFixedOrder ==
    \A k \in 1..Len(log) :
        LET earlier == EarlierCalls(k, log[k].seg)
        IN  /\ Cardinality(earlier) < n_strategies
            /\ log[k].strat = StrategyOrder[Cardinality(earlier) + 1]
            /\ \A m \in earlier : log[m].verdict = "unsafe"

\* the second segment went through all three strategies
C4_Witness ==
    /\ Len(log) = 4
    /\ log[1].seg = 0
    /\ log[2].seg = 1 /\ log[2].strat = "straight_line_target"
    /\ log[3].seg = 1 /\ log[3].strat = "straight_line_retract"
    /\ log[4].seg = 1 /\ log[4].strat = "stationary" /\ log[4].verdict = "unsafe"

\* C5: once a candidate of a segment is judged safe no further optimizer call
\* is made for that segment; a safe first candidate means exactly one call.
C5_ShortCircuitOnSafe ==
    \A k \in 1..Len(log) :
        log[k].verdict = "safe" =>
            /\ \A m \in (k + 1)..Len(log) : log[m].seg # log[k].seg
            /\ (log[k].strat = "straight_line_target" =>
                    Cardinality({m \in 1..Len(log) : log[m].seg = log[k].seg}) = 1)

\* a two-segment run in which each segment took exactly one optimizer call
C5_Witness ==
    /\ pc = "done"
    /\ Len(log) = 2
    /\ log[1].seg = 0 /\ log[1].verdict = "safe"
    /\ log[2].seg = 1 /\ log[2].verdict = "safe"

RECURSIVE Flatten(_)
\* the samples of a sequence of accepted candidates, one after the other
Flatten(acc) == IF acc = <<>> THEN <<>> ELSE Head(acc).cand \o Flatten(Tail(acc))

RECURSIVE SumLen(_)
SumLen(acc) == IF acc = <<>> THEN 0 ELSE Len(Head(acc).cand) + SumLen(Tail(acc))

\* C6: the output is the concatenation, in waypoint order, of the accepted
\* candidates of segments 0, 1, ..., with no sample dropped at a boundary; on
\* success there is one accepted candidate per segment.
C6_OutputIsConcatenation ==
    /\ traj = Flatten(accepted)
    /\ Len(traj) = SumLen(accepted)
    /\ \A k \in 1..Len(accepted) : accepted[k].seg = k - 1
    /\ (pc \in {"done", "played"} => Len(accepted) = Len(trajectory) - 1)

\* a successful two-segment run whose first candidate ends on the sample the
\* second one starts with
C6_Witness ==
    /\ pc = "done"
    /\ Len(trajectory) = 3
    /\ Len(accepted) = 2
    /\ Len(traj) = 6
    /\ traj[3] = traj[4]

\* C7: a candidate of an optimizer call that reported failure is never
\* accepted into the output trajectory.
C7_FailedResultNeverAccepted ==
    \A k \in 1..Len(accepted) : accepted[k].status # "fail"

\* C8: __check_safe returns unsafe exactly when some sample of the candidate
\* is in contact, wherever that sample is; with a backend reporting contact at
\* every pose it rejects after a single query.
C8_CheckSafeVerdict ==
    checked # <<>> =>
        /\ safe = (\A k \in 1..Len(checked) : ~(checked[k] \in contact))
        /\ (contact = Poses => (~safe /\ queries = 1))

\* a candidate whose only contact is at an inner sample was rejected
C8_Witness ==
    /\ Len(checked) = 3
    /\ ~(checked[1] \in contact)
    /\ checked[2] \in contact
    /\ ~(checked[3] \in contact)
    /\ ~safe

\* C9: the step count handed to the request builder is
\* max(ceil(displacement / 0.5), 3): at least 3, the least count of
\* 0.5-steps covering the displacement when that is more than 3
\* (0.3 gives 3, 1.7 gives 4).
C9_StepCount ==
    pc = "attempt" =>
        /\ n_steps >= min_steps
        /\ n_steps * step_dis_ratio >= dis
        /\ (n_steps > min_steps => (n_steps - 1) * step_dis_ratio < dis)
        /\ request.basic_info.n_steps = n_steps
        /\ (dis = 3 => n_steps = 3)
        /\ (dis = 17 => n_steps = 4)

C9_Witness ==
    /\ pc = "attempt"
    /\ dis = 17
    /\ n_steps = 4
    /\ request.basic_info.n_steps = 4

\* C10: the retracted endpoint's last joint is max(L, v - 5) for the stored
\* value v before the retraction, so it is never below the limit L.
C10_RetractionClamped ==
    (pc = "validate" /\ log[Len(log)].strat = "straight_line_retract") =>
        LET e == LastJoint(request.init_info.endpoint)
        IN  /\ e >= limit
            /\ e >= v_before - retract_by
            /\ (e = limit \/ e = v_before - retract_by)

\* a retraction that the limit cut short
C10_Witness ==
    /\ pc = "validate"
    /\ log[Len(log)].strat = "straight_line_retract"
    /\ v_before - retract_by < limit
    /\ LastJoint(request.init_info.endpoint) = limit

\* C11: when the coarse planner or the simplifier reports anything but a
\* solution the run aborts at once: no simplifier call after a planner
\* failure, no segment refined, no request ever submitted to the optimizer.
C11_PlanningFailureAborts ==
    (planned = "fail" \/ simplified = "fail") =>
        /\ pc = "failed"
        /\ err = "AssertionError"
        /\ (planned = "fail" => simplified = "none")
        /\ trajectory = <<>>
        /\ request = NoRequest
        /\ log = <<>>
        /\ accepted = <<>>

\* the planner found a path and the simplifier failed on it
C11_Witness ==
    /\ planned = "ok"
    /\ simplified = "fail"
    /\ pc = "failed"

\* C19: optimize leaves the stored configurations recorded by set_manip as
\* they were when it was called, the retraction of j = 1 included.
C19_StoredConfigurationUnchanged ==
    pc # "idle" => \A a \in Arms : StoredDOF(a) = stored0[a]

\* C20: the start pose handed to the coarse planner is the stored
\* configuration of the manipulator being planned.
C20_PlannerStartIsManipConfiguration ==
    (planned # "none" /\ stored0[manip] # Unset) => plan_start = stored0[manip]

\* C12: no request whose target waypoint has another dimension than the
\* manipulator's DOF count is ever submitted to the optimizer.
C12_MismatchRejectedBeforeSubmission ==
    \A k \in 1..Len(log) : WellFormed(log[k].request.constraints[1].vals)

\* C13: segments are refined in waypoint order: a request for a segment is
\* submitted only after every earlier segment had a candidate judged safe and
\* appended, and never after a request for a later segment.
C13_SegmentsInOrder ==
    \A k \in 1..Len(log) :
        /\ \A m \in 1..(k - 1) : log[m].seg <= log[k].seg
        /\ \A sg \in 0..(log[k].seg - 1) :
              /\ \E m \in 1..(k - 1) : log[m].seg = sg /\ log[m].verdict = "safe"
              /\ Len(accepted) > sg
              /\ accepted[sg + 1].seg = sg
              /\ accepted[sg + 1].verdict = TRUE

\* the optimizer was called for the second segment, after the first was accepted
C13_Witness ==
    /\ pc = "validate"
    /\ Len(log) = 2
    /\ log[1].seg = 0
    /\ log[2].seg = 1
    /\ log[2].verdict = "pending"
    /\ Len(accepted) = 1

\* the first sample of a trajectory at which the backend reports contact
FirstContact(t) ==
    CHOOSE k \in 1..Len(t) : t[k] \in contact /\ \A m \in 1..(k - 1) : ~(t[m] \in contact)

\* __check_safe has returned and nothing has touched the pose since
JustValidated ==
    \/ pc = "append"
    \/ (pc = "attempt" /\ j > 0)
    \/ (pc = "failed" /\ err = "No path is safe")

\* C14: after __check_safe the arm is at the last pose it sampled: the first
\* contacting sample (nothing after it is applied or queried) on an unsafe
\* verdict, the candidate's final sample on a safe one.
C14_PoseLeftAtLastSample ==
    JustValidated =>
        IF safe
        THEN /\ robotDOF[plan_arm] = checked[Len(checked)]
             /\ queries = Len(checked)
        ELSE /\ robotDOF[plan_arm] = checked[FirstContact(checked)]
             /\ queries = FirstContact(checked)

\* an unsafe verdict left the arm at the contacting second sample, away from
\* the pose it had before the validation
C14_Witness ==
    /\ pc = "attempt"
    /\ j = 1
    /\ ~safe
    /\ ~(checked[1] \in contact)
    /\ checked[2] \in contact
    /\ robotDOF[plan_arm] = checked[2]
    /\ robotDOF[plan_arm] # callPose

\* C15: the request of the j-th submission of a segment carries the
\* init_info of strategy j and nothing else changes between the submissions
\* of one segment.
C15_OnlyInitInfoDiffers ==
    \A k \in 1..Len(log) :
        LET r == log[k].request
            earlier == EarlierCalls(k, log[k].seg)
            jj == Cardinality(earlier)
        IN  /\ r.init_info.type \in {"straight_line", "stationary"}
            /\ (jj = 0 => r.init_info = [type |-> "straight_line",
                                         endpoint |-> trajectory[log[k].seg + 2]])
            /\ (jj = 1 => /\ r.init_info.type = "straight_line"
                          /\ WellFormed(r.init_info.endpoint)
                          /\ \A d \in 1..(NumDOF - 1) :
                                r.init_info.endpoint[d] = stored0[plan_arm][d]
                          /\ LastJoint(r.init_info.endpoint) >= limit
                          /\ \/ LastJoint(r.init_info.endpoint) < LastJoint(stored0[plan_arm])
                             \/ LastJoint(r.init_info.endpoint) = limit)
            /\ (jj = 2 => r.init_info.type = "stationary")
            /\ r.constraints[1].vals = trajectory[log[k].seg + 2]
            /\ \A m \in earlier :
                  /\ log[m].request.basic_info = r.basic_info
                  /\ log[m].request.costs = r.costs
                  /\ log[m].request.constraints = r.constraints

\* one segment submitted three requests, with three different init_infos
C15_Witness ==
    /\ Len(log) = 3
    /\ log[3].seg = 0
    /\ log[1].request.init_info # log[2].request.init_info
    /\ log[2].request.init_info.type = "straight_line"
    /\ log[3].request.init_info.type = "stationary"

\* C16: __set_request(manip, w, n) gives n_steps = n with start_fixed, a joint
\* constraint on w, the two Cartesian-velocity constraints of links s0 and s1
\* over steps 0 .. n - 1, and no init_info.
C16_RequestShape ==
    (pc = "attempt" /\ j = 0) =>
        /\ request.basic_info.n_steps = n_steps
        /\ request.basic_info.start_fixed = TRUE
        /\ request.basic_info.manip = manip
        /\ Len(request.constraints) = 3
        /\ request.constraints[1].type = "joint"
        /\ request.constraints[1].vals = trajectory[i + 2]
        /\ \A c \in {2, 3} :
              /\ request.constraints[c].type = "cart_vel"
              /\ request.constraints[c].first_step = 0
              /\ request.constraints[c].last_step = n_steps - 1
        /\ request.constraints[2].link = "s0"
        /\ request.constraints[3].link = "s1"
        /\ request.init_info.type = "none"

\* a request for four steps, its velocity constraints ending at step 3
C16_Witness ==
    /\ pc = "attempt"
    /\ request.basic_info.n_steps = 4
    /\ request.constraints[2].last_step = 3
    /\ request.constraints[3].last_step = 3
    /\ request.init_info.type = "none"

\* C18: the first sample of every accepted candidate is the start waypoint of
\* its segment.
C18_AcceptedStartsAtWaypoint ==
    \A k \in 1..Len(accepted) :
        accepted[k].cand[1] = trajectory[accepted[k].seg + 1]

\* a second segment starting away from the first waypoint was accepted
C18_Witness ==
    /\ Len(accepted) = 2
    /\ trajectory[2] # trajectory[1]
    /\ accepted[2].cand[1] = trajectory[2]

\* every candidate judged safe came from the first strategy
RetriesNeverAccepted ==
    \A k \in 1..Len(log) :
        log[k].verdict = "safe" => log[k].strat = "straight_line_target"

\* optimize is between its first segment and its end
Running == pc \in {"segment", "attempt", "validate", "append"}

\* optimize returned with one accepted candidate per segment
Assembled == pc \in {"done", "played"} /\ Len(accepted) = Len(trajectory) - 1

\* optimize raised 'No path is safe'
NoSafePath == pc = "failed" /\ err = "No path is safe"

\* a call made by optimize raised instead of returning (the IK or optimizer
\* call on a malformed waypoint, the lookup of a configuration never set)
CallRaised == pc = "failed" /\ err \in {"IKError", "OptimizerError", "AttributeError"}

\* at most three submissions per segment, 3 * (n - 1) in all
CallBound ==
    /\ \A sg \in 0..(Len(trajectory) - 2) :
          Cardinality({k \in 1..Len(log) : log[k].seg = sg}) <= n_strategies
    /\ \A k \in 1..Len(log) : log[k].seg \in 0..(Len(trajectory) - 2)
    /\ (Len(log) > 0 => Len(log) <= n_strategies * (Len(trajectory) - 1))

\* C17: as long as every call returns, a run of optimize over n waypoints
\* ends, with the assembled trajectory or with 'No path is safe', having made
\* at most 3 optimizer calls per segment and 3 * (n - 1) in all.
C17_Terminates ==
    /\ [](CallBound)
    /\ (Running ~> (Assembled \/ NoSafePath \/ CallRaised))

\* a two-segment run that failed after the three calls of its second segment
C17_Witness ==
    /\ NoSafePath
    /\ Len(trajectory) = 3
    /\ Len(log) = 4
    /\ Cardinality({k \in 1..Len(log) : log[k].seg = 1}) = n_strategies

====
